---- MODULE Spec2Model ----
(***************************************************************************)
(* A model of factory::Registry<T, Args...> (src/registerer.h): the store  *)
(* and the override table of each partition, the partition mutex, the      *)
(* Injector objects and the registration singletons, with every public     *)
(* operation cut into the steps between which other threads can run: the   *)
(* table access made once the lock is acquired, the unlock, and for New    *)
(* the call of the factory and the second unlock.                          *)
(***************************************************************************)
EXTENDS Integers, Sequences, FiniteSets, TLC

\* ------------------------------------------------------------------ bounds

\* Threads calling into the registry concurrently.
NumThreads == 2

\* Injector objects a run constructs (each is constructed and destroyed once).
NumInjectors == 2

\* Depth of nested Registry calls one thread makes through factories that call
\* back into the registry.
MaxDepth == 2

Threads == 1..NumThreads

InjectorIds == 1..NumInjectors

\* ------------------------------------------------------------------ values

\* The partitions: Registry<Engine>, Registry<Vehicle, Engine *> and
\* Registry<Vehicle> of the tests, Registry<Shape> and
\* Registry<Shape, const std::string &> of registerer_example.cc.
Partitions == {"Engine", "Vehicle", "VehicleNoArg", "Shape", "ShapeString"}

\* Key strings, in std::string order (the order of std::map<std::string, Entry>).
KeyOrder == <<"Bicycle", "Car", "Ellipsis", "Motorbike", "Rect", "Rectangle",
              "V16", "V4", "V8">>

Keys == {KeyOrder[n] : n \in 1..Len(KeyOrder)}

\* The value read through a reference to a string that no longer exists.
Dangling == "<dangling>"

\* A string that equals no key in any table.
Garbage == "<garbage>"

\* The registrations linked into the program: partition, key, location, the
\* class whose factory "new derived_type(args...)" is registered, and how the
\* registration is declared: by REGISTER inside the class, or by a
\* __Registerer object of its own. The first, second and fourth are those of
\* registerer_test.cc. The third is a second class that declares "V4" for
\* Registry<Engine> from another file, as V4Engine of registerer_test_deps.cc
\* does for the Engine of that file. The tenth registers Rect a second time,
\* under the key registerer_example.cc:41 wants for it: REGISTER cannot, as a
\* second REGISTER for one signature in one class defines __key twice.
Declarations ==
  <<[p |-> "Engine", key |-> "V4", file |-> "registerer_test.cc", line |-> "25",
     function |-> "V4Engine", by |-> "REGISTER"],
    [p |-> "Engine", key |-> "V8", file |-> "registerer_test.cc", line |-> "32",
     function |-> "V8Engine", by |-> "REGISTER"],
    [p |-> "Engine", key |-> "V4", file |-> "registerer_test_deps.cc", line |-> "15",
     function |-> "deps::V4Engine", by |-> "REGISTER"],
    [p |-> "Vehicle", key |-> "Car", file |-> "registerer_test.cc", line |-> "87",
     function |-> "Car", by |-> "REGISTER"],
    [p |-> "VehicleNoArg", key |-> "Bicycle", file |-> "registerer_test.cc",
     line |-> "113", function |-> "Bicycle", by |-> "REGISTER"],
    [p |-> "Vehicle", key |-> "Motorbike", file |-> "registerer_test.cc",
     line |-> "114", function |-> "Bicycle", by |-> "REGISTER"],
    [p |-> "Shape", key |-> "Ellipsis", file |-> "registerer_example.cc",
     line |-> "29", function |-> "Ellipsis", by |-> "REGISTER"],
    [p |-> "ShapeString", key |-> "Ellipsis", file |-> "registerer_example.cc",
     line |-> "30", function |-> "Ellipsis", by |-> "REGISTER"],
    [p |-> "Shape", key |-> "Rectangle", file |-> "registerer_example.cc",
     line |-> "22", function |-> "Rect", by |-> "REGISTER"],
    [p |-> "Shape", key |-> "Rect", file |-> "registerer_example.cc",
     line |-> "41", function |-> "Rect", by |-> "__Registerer"]>>

DeclIds == 1..Len(Declarations)

\* The factories passed to Injector constructors. "Mock" returns an object
\* (registerer_test.cc:180); "Reenter" is a factory whose body calls back into
\* the registry of its own partition before it returns its object.
InjectedFunctions == {"Mock", "Reenter"}

Functions == {Declarations[d].function : d \in DeclIds} \cup InjectedFunctions

\* The null unique_ptr.
Null == <<"nullptr">>

\* The object a factory returns: tagged with the factory that built it, and,
\* for an injected factory, with the Injector it was passed to.
Instance(function) == <<"instance of", function>>

\* ------------------------------------------------------------------ state

VARIABLES
  registry,        \* registry[p]: the EntryMap of GetRegistry(), key -> Entry
  injectors,       \* injectors[p]: the EntryMap of GetInjectors(), key -> Entry
  registry_mutex,  \* registry_mutex[p]: 0 when free, else the thread that locked it
  instance,        \* instance[d]: TypeRegisterer<...>::instance of declaration d
  injector,        \* injector[i]: the Injector object i and the string its key refers to
  stack            \* stack[t]: the Registry calls thread t is inside, outermost first

vars == <<registry, injectors, registry_mutex, instance, injector, stack>>

Free == 0

\* std::map<std::string, Entry> with no element.
EmptyMap == <<>>

\* An iterator that is end(): GetEntry returns &(it->second) of it unread.
EndIt == [tab |-> "end", key |-> "", node |-> 0]

\* An Injector that is not constructed yet (a destroyed one has the same
\* fields, and st "dead"). Of a constructed one: st is its
\* lifetime ("ctor", "alive", "dtor", "dead"), ctorKey the value of the string
\* passed to the constructor, key what the member `const std::string &key`
\* reads now (Dangling once the string it refers to is gone), temp whether
\* that string is a temporary of the constructor call that is running.
NoInjector == [st |-> "none", p |-> "", ctorKey |-> "", key |-> "", temp |-> FALSE]

\* One Registry call of a thread: the operation, its partition, where it is
\* (pc), its arguments (key, fn, obj, and newKey of an alias) and its locals
\* (found, it, res).
Frame(op, p, pc, key, fn, obj) ==
  [op |-> op, p |-> p, pc |-> pc, key |-> key, fn |-> fn, obj |-> obj,
   newKey |-> "", found |-> FALSE, it |-> EndIt, res |-> Null]

Init ==
  /\ registry = [p \in Partitions |-> EmptyMap]
  /\ injectors = [p \in Partitions |-> EmptyMap]
  /\ registry_mutex = [p \in Partitions |-> Free]
  /\ instance = [d \in DeclIds |-> "uninit"]
  /\ injector = [i \in InjectorIds |-> NoInjector]
  /\ stack = [t \in Threads |-> <<>>]

\* --------------------------------------------------------- std::map, Entry

\* struct Entry {file, line, function}; node is the identity of the map node
\* that holds it (what a `const Entry *` points to).
Entry(file, line, function, node) ==
  [file |-> file, line |-> line, function |-> function, node |-> node]

\* map.find(key): an iterator to the element of that key, or end().
Find(tab, map, key) ==
  IF key \in DOMAIN map THEN [tab |-> tab, key |-> key, node |-> map[key].node]
  ELSE EndIt

\* A map whose insertion replaces the element of an existing key (operator[]
\* or insert_or_assign in place of emplace).
EmplaceOverwrite(map, key, entry) ==
  [k \in DOMAIN map \cup {key} |-> IF k = key THEN entry ELSE map[k]]

\* A map that takes an element only while it is empty.
EmplaceIntoEmpty(map, key, entry) ==
  IF DOMAIN map # {} THEN map
  ELSE [k \in {key} |-> entry]

\* map.emplace(key, entry): inserts unless an element of that key exists.
Emplace(map, key, entry) ==
  IF key \in DOMAIN map THEN map
  ELSE [k \in DOMAIN map \cup {key} |-> IF k = key THEN entry ELSE map[k]]

\* map.erase(key): removes the element of that key, if any.
Erase(map, key) == [k \in DOMAIN map \ {key} |-> map[k]]

\* The keys of a map in iteration order.
RECURSIVE KeysFrom(_, _)
KeysFrom(map, n) ==
  IF n > Len(KeyOrder) THEN <<>>
  ELSE (IF KeyOrder[n] \in DOMAIN map THEN <<KeyOrder[n]>> ELSE <<>>)
       \o KeysFrom(map, n + 1)

\* Whether the element an iterator points to is still in its map.
NodeLive(p, it) ==
  LET map == IF it.tab = "injectors" THEN injectors[p] ELSE registry[p]
  IN  /\ it.tab # "end"
      /\ it.key \in DOMAIN map
      /\ map[it.key].node = it.node

\* it->second of a live node.
Deref(p, it) == IF it.tab = "injectors" THEN injectors[p][it.key] ELSE registry[p][it.key]

\* ------------------------------------------------------------- std::mutex

\* registry_mutex_.lock() returns once the mutex is free (a thread that
\* already holds it never gets it: std::mutex is not recursive).
CanLock(m, t) == m = Free

\* An unlock() that leaves the mutex as it is.
UnlockIgnored(m, t) == {m}

\* registry_mutex_.unlock(): by the holder, frees it. By a thread that does
\* not hold it the behaviour is undefined: the call is ignored, or the mutex
\* is released whoever holds it.
UnlockOutcomes(m, t) == IF m = t THEN {Free} ELSE {m, Free}

\* ---------------------------------------------- the tables of a partition

\* A GetRegistry whose static map is one object for every Registry<T, Args...>.
GetRegistryShared(p) ==
  [key \in UNION {DOMAIN registry[q] : q \in Partitions} |->
     registry[CHOOSE q \in Partitions : key \in DOMAIN registry[q]][key]]

\* GetRegistry() of Registry p: the function-local static map of that
\* instantiation of the template.
GetRegistry(p) == registry[p]

\* GetInjectors() of Registry p.
GetInjectors(p) == injectors[p]

\* ------------------------------------------------------------ the lookups

\* A GetEntry that asks the registry before the injectors.
GetEntryRegistryFirst(inj, reg, key) ==
  LET it1 == Find("registry", reg, key)
      it2 == Find("injectors", inj, key)
  IN  IF it1 # EndIt THEN [found |-> TRUE, it |-> it1]
      ELSE [found |-> it2 # EndIt, it |-> it2]

\* A GetEntry that does not compare the second find() with end().
GetEntryNoEndCheck(inj, reg, key) ==
  LET it1 == Find("injectors", inj, key)
      it2 == Find("registry", reg, key)
  IN  IF it1 # EndIt THEN [found |-> TRUE, it |-> it1]
      ELSE [found |-> TRUE, it |-> it2]

\* A GetEntry that never asks the injectors.
GetEntryRegistryOnly(inj, reg, key) ==
  LET it2 == Find("registry", reg, key)
  IN  [found |-> it2 # EndIt, it |-> it2]

\* GetEntry under the lock: the injectors first, then the registry.
GetEntry(inj, reg, key) ==
  LET it1 == Find("injectors", inj, key)
      it2 == Find("registry", reg, key)
  IN  IF it1 # EndIt THEN [found |-> TRUE, it |-> it1]
      ELSE [found |-> it2 # EndIt, it |-> it2]

\* A GetKeys whose loop stops one element before end().
GetKeysButLast(reg) ==
  LET keys == KeysFrom(reg, 1)
  IN  SubSeq(keys, 1, Len(keys) - 1)

\* GetKeys: iter.first of every element of the registry.
GetKeys(reg) == KeysFrom(reg, 1)

\* A GetKeysWithLocations that writes the line before the file.
GetKeysWithLocationsLineFirst(reg) ==
  LET keys == KeysFrom(reg, 1)
  IN  [n \in 1..Len(keys) |->
         reg[keys[n]].line \o ":" \o reg[keys[n]].file \o ": " \o keys[n]]

\* GetKeysWithLocations: file + ":" + line + ": " + key of every element.
GetKeysWithLocations(reg) ==
  LET keys == KeysFrom(reg, 1)
  IN  [n \in 1..Len(keys) |->
         reg[keys[n]].file \o ":" \o reg[keys[n]].line \o ": " \o keys[n]]

\* A GetKeyFor that takes the __key of the class whatever the signature.
GetKeyForAnySignature(p, C) ==
  LET d == CHOOSE d \in DeclIds : /\ Declarations[d].by = "REGISTER"
                                  /\ Declarations[d].function = C
  IN  Declarations[d].key

\* GetKeyFor<C>() of the Registry of partition p:
\* C::__key(std::function<void(const T *, Args...)>()), the overload that the
\* REGISTER of class C for the signature of p defines, which returns its KEY.
GetKeyFor(p, C) ==
  LET d == CHOOSE d \in DeclIds : /\ Declarations[d].by = "REGISTER"
                                  /\ Declarations[d].p = p
                                  /\ Declarations[d].function = C
  IN  Declarations[d].key

\* ------------------------------------------------------------ call stacks

Top(t) == stack[t][Len(stack[t])]

\* Thread t is at pc in its innermost Registry call.
At(t, pc) == stack[t] # <<>> /\ Top(t).pc = pc

\* The innermost call of t becomes frame f.
SetTop(t, f) == [stack EXCEPT ![t] = [@ EXCEPT ![Len(@)] = f]]

\* The innermost call of t has returned.
Pop(t) == [stack EXCEPT ![t] = SubSeq(@, 1, Len(@) - 1)]

\* Thread t can start a Registry call on partition p: from client code, or from
\* the body of a factory that calls back into its own partition. A call that may
\* itself run a factory needs `room` further levels.
CanCall(t, p, room) ==
  \/ stack[t] = <<>>
  \/ /\ At(t, "factory")
     /\ Top(t).p = p
     /\ Len(stack[t]) + 1 + room <= MaxDepth

\* The call: a new innermost frame (the factory that made it waits for it).
Call(t, f) ==
  stack' = [stack EXCEPT ![t] =
              IF @ = <<>> THEN <<f>>
              ELSE Append([@ EXCEPT ![Len(@)].pc = "factory_wait"], f)]

\* registry_mutex_.lock() at pc `from`, and what the call does next with the
\* mutex acquired, which leaves it as frame f.
LockStep(t, from, f) ==
  /\ At(t, from)
  /\ CanLock(registry_mutex[Top(t).p], t)
  /\ registry_mutex' = [registry_mutex EXCEPT ![Top(t).p] = t]
  /\ stack' = SetTop(t, f)

\* registry_mutex_.unlock() at pc `from`, which leaves the stacks as `after`.
UnlockStep(t, from, after) ==
  /\ At(t, from)
  /\ \E m \in UnlockOutcomes(registry_mutex[Top(t).p], t) :
       registry_mutex' = [registry_mutex EXCEPT ![Top(t).p] = m]
  /\ stack' = after

\* ------------------------------------------------------- CanNew and New

CallCanNew(t, p, key) ==
  /\ CanCall(t, p, 0)
  /\ Call(t, Frame("CanNew", p, "ge_lock", key, "", 0))
  /\ UNCHANGED <<registry, injectors, registry_mutex, instance, injector>>

CallNew(t, p, key) ==
  /\ CanCall(t, p, 1)
  /\ Call(t, Frame("New", p, "ge_lock", key, "", 0))
  /\ UNCHANGED <<registry, injectors, registry_mutex, instance, injector>>

\* GetEntry of CanNew or New: lock, and the two find()s.
GetEntryFind(t) ==
  /\ At(t, "ge_lock")
  /\ LET f == Top(t)
         r == GetEntry(GetInjectors(f.p), GetRegistry(f.p), f.key)
     IN  LockStep(t, "ge_lock",
                  [f EXCEPT !.found = r.found, !.it = r.it, !.pc = "ge_unlock"])
  /\ UNCHANGED <<registry, injectors, instance, injector>>

\* GetEntry unlocks and returns (found, &it->second). CanNew returns .first.
CanNewReturn(t) ==
  /\ At(t, "ge_unlock")
  /\ Top(t).op = "CanNew"
  /\ UnlockStep(t, "ge_unlock", Pop(t))
  /\ UNCHANGED <<registry, injectors, instance, injector>>

\* GetEntry unlocks and returns to New, which tests entry.first.
GetEntryUnlock(t) ==
  /\ At(t, "ge_unlock")
  /\ Top(t).op = "New"
  /\ UnlockStep(t, "ge_unlock",
       SetTop(t, [Top(t) EXCEPT
                    !.pc = IF Top(t).found THEN "new_call" ELSE "new_unlock"]))
  /\ UNCHANGED <<registry, injectors, instance, injector>>

\* What entry.second->function reads: the function of the entry, or, the node
\* erased since GetEntry returned, whatever function its freed memory holds.
FunctionRead(p, it, held) == IF NodeLive(p, it) THEN {Deref(p, it).function} ELSE held

\* result.reset(entry.second->function(args...)): a factory that calls back
\* into the registry runs up to that call; any other returns its object.
NewCall(t, F) ==
  /\ At(t, "new_call")
  /\ LET f == Top(t)
     IN  \E fn \in FunctionRead(f.p, f.it, F) :
           stack' = SetTop(t,
             IF fn = "Reenter" THEN [f EXCEPT !.fn = fn, !.pc = "factory"]
             ELSE [f EXCEPT !.fn = fn, !.res = Instance(fn), !.pc = "new_unlock"])
  /\ UNCHANGED <<registry, injectors, registry_mutex, instance, injector>>

\* The factory that called back into the registry returns its object.
FactoryReturn(t) ==
  /\ At(t, "factory_wait")
  /\ stack' = SetTop(t, [Top(t) EXCEPT !.res = Instance(Top(t).fn),
                                       !.pc = "new_unlock"])
  /\ UNCHANGED <<registry, injectors, registry_mutex, instance, injector>>

\* registry_mutex_.unlock() of New, after GetEntry has unlocked already, and
\* the return of result.
NewUnlock(t) ==
  /\ UnlockStep(t, "new_unlock", Pop(t))
  /\ UNCHANGED <<registry, injectors, instance, injector>>

\* ------------------------------------- GetKeys and GetKeysWithLocations

CallGetKeys(t, p) ==
  /\ stack[t] = <<>>
  /\ Call(t, Frame("GetKeys", p, "gk_lock", "", "", 0))
  /\ UNCHANGED <<registry, injectors, registry_mutex, instance, injector>>

GetKeysIter(t) ==
  /\ At(t, "gk_lock")
  /\ LockStep(t, "gk_lock", [Top(t) EXCEPT !.res = GetKeys(GetRegistry(Top(t).p)),
                                           !.pc = "gk_unlock"])
  /\ UNCHANGED <<registry, injectors, instance, injector>>

GetKeysUnlock(t) ==
  /\ UnlockStep(t, "gk_unlock", Pop(t))
  /\ UNCHANGED <<registry, injectors, instance, injector>>

CallGetKeysWithLocations(t, p) ==
  /\ stack[t] = <<>>
  /\ Call(t, Frame("GetKeysWithLocations", p, "gl_lock", "", "", 0))
  /\ UNCHANGED <<registry, injectors, registry_mutex, instance, injector>>

GetKeysWithLocationsIter(t) ==
  /\ At(t, "gl_lock")
  /\ LockStep(t, "gl_lock",
              [Top(t) EXCEPT !.res = GetKeysWithLocations(GetRegistry(Top(t).p)),
                             !.pc = "gl_unlock"])
  /\ UNCHANGED <<registry, injectors, instance, injector>>

GetKeysWithLocationsUnlock(t) ==
  /\ UnlockStep(t, "gl_unlock", Pop(t))
  /\ UNCHANGED <<registry, injectors, instance, injector>>

\* ------------------------------------------------------- __Registerer

\* The initialization of TypeRegisterer<...>::instance of declaration d: the
\* constructor of __Registerer with the Trait's key, file and line.
CallRegisterer(t, d) ==
  /\ instance[d] = "uninit"
  /\ CanCall(t, Declarations[d].p, 0)
  /\ instance' = [instance EXCEPT ![d] = "init"]
  /\ Call(t, Frame("__Registerer", Declarations[d].p, "rg_lock",
                   Declarations[d].key, Declarations[d].function, d))
  /\ UNCHANGED <<registry, injectors, registry_mutex, injector>>

RegistererEmplace(t) ==
  /\ At(t, "rg_lock")
  /\ LET f == Top(t)
         entry == Entry(Declarations[f.obj].file, Declarations[f.obj].line,
                        f.fn, f.obj)
     IN  registry' = [registry EXCEPT ![f.p] = Emplace(@, f.key, entry)]
  /\ LockStep(t, "rg_lock", [Top(t) EXCEPT !.pc = "rg_unlock"])
  /\ UNCHANGED <<injectors, instance, injector>>

RegistererUnlock(t) ==
  /\ UnlockStep(t, "rg_unlock", Pop(t))
  /\ instance' = [instance EXCEPT ![Top(t).obj] = "done"]
  /\ UNCHANGED <<registry, injectors, injector>>

\* ------------------------------------------------------------- Injector

\* Injector i(key, function): the member `key` is bound to the caller's
\* string, a temporary of the call when temp.
CallInjector(t, i, p, key, temp, function) ==
  /\ stack[t] = <<>>
  /\ injector[i].st = "none"
  /\ \A j \in InjectorIds : j < i => injector[j].st # "none"
  /\ injector' = [injector EXCEPT ![i] =
                    [st |-> "ctor", p |-> p, ctorKey |-> key, key |-> key,
                     temp |-> temp]]
  /\ Call(t, Frame("Injector", p, "in_lock", key, function, i))
  /\ UNCHANGED <<registry, injectors, registry_mutex, instance>>

InjectorEmplace(t) ==
  /\ At(t, "in_lock")
  /\ LET f == Top(t)
         entry == Entry("undefined", "undefined", f.fn, f.obj)
     IN  injectors' = [injectors EXCEPT ![f.p] = Emplace(@, f.key, entry)]
  /\ LockStep(t, "in_lock", [Top(t) EXCEPT !.pc = "in_unlock"])
  /\ UNCHANGED <<registry, instance, injector>>

\* The constructor unlocks and returns; the full expression that made a
\* temporary string for `key` ends and destroys it.
InjectorUnlock(t) ==
  /\ UnlockStep(t, "in_unlock", Pop(t))
  /\ injector' = [injector EXCEPT ![Top(t).obj] =
                    [@ EXCEPT !.st = "alive", !.temp = FALSE,
                              !.key = IF injector[Top(t).obj].temp THEN Dangling
                                      ELSE @]]
  /\ UNCHANGED <<registry, injectors, instance>>

\* The caller assigns another value to the string an alive Injector refers to.
ModifyKeyString(t, i, key) ==
  /\ stack[t] = <<>>
  /\ injector[i].st = "alive"
  /\ injector[i].key \notin {key, Dangling}
  /\ injector' = [injector EXCEPT ![i].key = key]
  /\ UNCHANGED <<registry, injectors, registry_mutex, instance, stack>>

\* ~Injector of i.
CallInjectorDtor(t, i) ==
  /\ stack[t] = <<>>
  /\ injector[i].st = "alive"
  /\ injector' = [injector EXCEPT ![i].st = "dtor"]
  /\ Call(t, Frame("~Injector", injector[i].p, "de_lock", "", "", i))
  /\ UNCHANGED <<registry, injectors, registry_mutex, instance>>

\* The strings erase(key) can read through the member `key`: the value of the
\* string it refers to, or, the string gone, whatever its memory holds.
KeyRead(key) == IF key = Dangling THEN Keys \cup {Garbage} ELSE {key}

\* A destructor that erases the key from the registry as well.
InjectorEraseBoth(t) ==
  /\ At(t, "de_lock")
  /\ \E key \in KeyRead(injector[Top(t).obj].key) :
       /\ injectors' = [injectors EXCEPT ![Top(t).p] = Erase(@, key)]
       /\ registry' = [registry EXCEPT ![Top(t).p] = Erase(@, key)]
       /\ LockStep(t, "de_lock", [Top(t) EXCEPT !.key = key, !.pc = "de_unlock"])
  /\ UNCHANGED <<instance, injector>>

\* GetInjectors()->erase(key): the frame keeps the string that was read.
InjectorErase(t) ==
  /\ At(t, "de_lock")
  /\ \E key \in KeyRead(injector[Top(t).obj].key) :
       /\ injectors' = [injectors EXCEPT ![Top(t).p] = Erase(@, key)]
       /\ LockStep(t, "de_lock", [Top(t) EXCEPT !.key = key, !.pc = "de_unlock"])
  /\ UNCHANGED <<registry, instance, injector>>

InjectorDtorUnlock(t) ==
  /\ UnlockStep(t, "de_unlock", Pop(t))
  /\ injector' = [injector EXCEPT ![Top(t).obj] = [NoInjector EXCEPT !.st = "dead"]]
  /\ UNCHANGED <<registry, injectors, instance>>

\* ---------------------------------------------------------------- alias

\* The alias of registerer_example.cc:41, REGISTER_ALIAS(Shape, "Rectangle",
\* "Rect"), is not defined in registerer.h: it is modelled on the
\* specification (4.4): the lookup of existingKey in the store of the
\* partition and, if found, the insertion of an entry under newKey with the
\* same factory and the location of the alias call, under the partition lock.

\* An alias that looks up newKey and inserts under existingKey.
AliasSwapped(reg, existingKey, newKey, file, line) ==
  IF newKey \in DOMAIN reg
    THEN Emplace(reg, existingKey, Entry(file, line, reg[newKey].function, 0))
    ELSE reg

\* An alias that inserts without testing that existingKey was found: the
\* entry under newKey gets an empty factory.
AliasUnchecked(reg, existingKey, newKey, file, line) ==
  Emplace(reg, newKey,
          Entry(file, line,
                IF existingKey \in DOMAIN reg THEN reg[existingKey].function ELSE "",
                0))

\* The store after alias(existingKey, newKey) called at file:line. The entry
\* is inserted as a registration inserts: the store keeps an entry it holds
\* for newKey. Its node is that of no declaration.
Alias(reg, existingKey, newKey, file, line) ==
  IF existingKey \in DOMAIN reg
    THEN Emplace(reg, newKey, Entry(file, line, reg[existingKey].function, 0))
    ELSE reg

CallAlias(t, p, existingKey, newKey) ==
  /\ stack[t] = <<>>
  /\ Call(t, [Frame("Alias", p, "al_lock", existingKey, "", 0)
                EXCEPT !.newKey = newKey])
  /\ UNCHANGED <<registry, injectors, registry_mutex, instance, injector>>

AliasInsert(t) ==
  /\ At(t, "al_lock")
  /\ LET f == Top(t)
     IN  registry' = [registry EXCEPT ![f.p] =
                        Alias(@, f.key, f.newKey, "registerer_example.cc", "41")]
  /\ LockStep(t, "al_lock", [Top(t) EXCEPT !.pc = "al_unlock"])
  /\ UNCHANGED <<injectors, instance, injector>>

AliasUnlock(t) ==
  /\ UnlockStep(t, "al_unlock", Pop(t))
  /\ UNCHANGED <<registry, injectors, instance, injector>>

\* ------------------------------------------------------- specifications

\* The keys the calls on Registry<Engine> use: V4 is declared twice, V16 never
\* (V8 is declared and never asked for).
EngineKeys == {"V4", "V16"}

\* One thread using Registry<Engine>, with every declaration of the
\* partition, Injectors of either kind of key string and factories that call
\* back into the registry.
NextSeq ==
  \E t \in {1} :
    \/ \E key \in EngineKeys : CallCanNew(t, "Engine", key)
    \/ \E key \in EngineKeys : CallNew(t, "Engine", key)
    \/ GetEntryFind(t)
    \/ CanNewReturn(t)
    \/ GetEntryUnlock(t)
    \/ NewCall(t, Functions)
    \/ FactoryReturn(t)
    \/ NewUnlock(t)
    \/ CallGetKeys(t, "Engine")
    \/ GetKeysIter(t)
    \/ GetKeysUnlock(t)
    \/ CallGetKeysWithLocations(t, "Engine")
    \/ GetKeysWithLocationsIter(t)
    \/ GetKeysWithLocationsUnlock(t)
    \/ \E d \in DeclIds : Declarations[d].p = "Engine" /\ CallRegisterer(t, d)
    \/ RegistererEmplace(t)
    \/ RegistererUnlock(t)
    \/ \E i \in InjectorIds, key \in EngineKeys, temp \in BOOLEAN,
          function \in InjectedFunctions :
         CallInjector(t, i, "Engine", key, temp, function)
    \/ InjectorEmplace(t)
    \/ InjectorUnlock(t)
    \/ \E i \in InjectorIds, key \in EngineKeys : ModifyKeyString(t, i, key)
    \/ \E i \in InjectorIds : CallInjectorDtor(t, i)
    \/ InjectorErase(t)
    \/ InjectorDtorUnlock(t)

SpecSeq == Init /\ [][NextSeq]_vars

\* The factories of the program when none calls back into the registry.
PlainFunctions == Functions \ {"Reenter"}

\* The threads using Registry<Engine> concurrently, with one Injector and
\* factories that do not call back into the registry.
Next ==
  \E t \in Threads :
    \/ \E key \in EngineKeys : CallCanNew(t, "Engine", key)
    \/ \E key \in EngineKeys : CallNew(t, "Engine", key)
    \/ GetEntryFind(t)
    \/ CanNewReturn(t)
    \/ GetEntryUnlock(t)
    \/ NewCall(t, PlainFunctions)
    \/ NewUnlock(t)
    \/ CallGetKeys(t, "Engine")
    \/ GetKeysIter(t)
    \/ GetKeysUnlock(t)
    \/ CallGetKeysWithLocations(t, "Engine")
    \/ GetKeysWithLocationsIter(t)
    \/ GetKeysWithLocationsUnlock(t)
    \/ \E d \in DeclIds : Declarations[d].p = "Engine" /\ CallRegisterer(t, d)
    \/ RegistererEmplace(t)
    \/ RegistererUnlock(t)
    \/ \E key \in EngineKeys, temp \in BOOLEAN :
         CallInjector(t, 1, "Engine", key, temp, "Mock")
    \/ InjectorEmplace(t)
    \/ InjectorUnlock(t)
    \/ CallInjectorDtor(t, 1)
    \/ InjectorErase(t)
    \/ InjectorDtorUnlock(t)

Spec == Init /\ [][Next]_vars

\* A main() that is entered while initializations are still to run.
ReadyAtOnce == TRUE

\* The first statement of main() is reached: the dynamic initialization of
\* every TypeRegisterer<...>::instance, a non-local static object of the
\* program, has completed.
Ready == \A d \in DeclIds : instance[d] = "done"

\* The partitions and keys ordinary code uses in the program below.
MainPartitions == {"Vehicle", "VehicleNoArg", "Shape", "ShapeString"}

MainKeys == {"Ellipsis", "Motorbike", "Rect", "Rectangle"}

\* The whole program: the initialization of the TypeRegisterer instances of
\* every declaration, in any order, on the thread that will run main(); then
\* the threads of ordinary code, using the partitions of Vehicle and Shape.
NextMain ==
  \/ \E d \in DeclIds : CallRegisterer(1, d)
  \/ RegistererEmplace(1)
  \/ RegistererUnlock(1)
  \/ /\ Ready
     /\ \E t \in Threads :
          \/ \E p \in MainPartitions, key \in MainKeys : CallCanNew(t, p, key)
          \/ \E p \in MainPartitions, key \in MainKeys : CallNew(t, p, key)
          \/ GetEntryFind(t)
          \/ CanNewReturn(t)
          \/ GetEntryUnlock(t)
          \/ NewCall(t, PlainFunctions)
          \/ NewUnlock(t)
          \/ \E p \in MainPartitions : CallGetKeys(t, p)
          \/ GetKeysIter(t)
          \/ GetKeysUnlock(t)
          \/ \E p \in MainPartitions : CallGetKeysWithLocations(t, p)
          \/ GetKeysWithLocationsIter(t)
          \/ GetKeysWithLocationsUnlock(t)
          \/ \E p \in {"Shape", "ShapeString"} :
               CallInjector(t, 1, p, "Ellipsis", FALSE, "Mock")
          \/ InjectorEmplace(t)
          \/ InjectorUnlock(t)
          \/ CallInjectorDtor(t, 1)
          \/ InjectorErase(t)
          \/ InjectorDtorUnlock(t)

SpecMain == Init /\ [][NextMain]_vars

\* The keys the program below uses on Registry<Shape>.
ShapeKeys == {"Rectangle", "Rect", "Ellipsis"}

\* One thread using Registry<Shape> as registerer_example.cc does: the
\* registrations of Ellipsis and Rect, aliases, lookups and an Injector.
NextAlias ==
  \E t \in {1} :
    \/ \E d \in {7, 9} : CallRegisterer(t, d)
    \/ RegistererEmplace(t)
    \/ RegistererUnlock(t)
    \/ \E existingKey \in ShapeKeys, newKey \in ShapeKeys :
         CallAlias(t, "Shape", existingKey, newKey)
    \/ AliasInsert(t)
    \/ AliasUnlock(t)
    \/ \E key \in ShapeKeys : CallCanNew(t, "Shape", key)
    \/ \E key \in ShapeKeys : CallNew(t, "Shape", key)
    \/ GetEntryFind(t)
    \/ CanNewReturn(t)
    \/ GetEntryUnlock(t)
    \/ NewCall(t, PlainFunctions)
    \/ NewUnlock(t)
    \/ CallGetKeys(t, "Shape")
    \/ GetKeysIter(t)
    \/ GetKeysUnlock(t)
    \/ \E key \in ShapeKeys : CallInjector(t, 1, "Shape", key, FALSE, "Mock")
    \/ InjectorEmplace(t)
    \/ InjectorUnlock(t)
    \/ CallInjectorDtor(t, 1)
    \/ InjectorErase(t)
    \/ InjectorDtorUnlock(t)

SpecAlias == Init /\ [][NextAlias]_vars

\* A call that thread t starts from client code: the caller may never make it.
ThreadCall(t) ==
  \/ CallCanNew(t, "Engine", "V4")
  \/ CallNew(t, "Engine", "V4")
  \/ CallGetKeys(t, "Engine")
  \/ CallGetKeysWithLocations(t, "Engine")
  \/ CallRegisterer(t, 1)
  \/ CallInjector(t, 1, "Engine", "V4", FALSE, "Mock")
  \/ CallInjectorDtor(t, 1)

\* A step of thread t inside the call it has made: the thread takes it when
\* it is scheduled, the mutex allowing.
ThreadStep(t) ==
  \/ GetEntryFind(t)
  \/ CanNewReturn(t)
  \/ GetEntryUnlock(t)
  \/ NewCall(t, PlainFunctions)
  \/ NewUnlock(t)
  \/ GetKeysIter(t)
  \/ GetKeysUnlock(t)
  \/ GetKeysWithLocationsIter(t)
  \/ GetKeysWithLocationsUnlock(t)
  \/ RegistererEmplace(t)
  \/ RegistererUnlock(t)
  \/ InjectorEmplace(t)
  \/ InjectorUnlock(t)
  \/ InjectorErase(t)
  \/ InjectorDtorUnlock(t)

NextLive == \E t \in Threads : ThreadCall(t) \/ ThreadStep(t)

\* The threads under fair scheduling: a thread inside a call that can again
\* and again take its next step (for lock(), the mutex is free again and
\* again) eventually takes it. Factories do not call back into the registry.
SpecLive ==
  Init /\ [][NextLive]_vars /\ \A t \in Threads : SF_vars(ThreadStep(t))

\* ------------------------------------------------------------- claims

\* Thread t is at pc in an innermost call of operation op.
InOp(t, op, pc) == At(t, pc) /\ Top(t).op = op

\* Neither table of partition p holds key.
Absent(p, key) == key \notin DOMAIN injectors[p] /\ key \notin DOMAIN registry[p]

\* C1: New(key), about to return, has called the factory of the entry the
\* override table holds for key if there is one, otherwise the factory of the
\* entry the store holds for key, and returns the instance that factory made.
C1_LookupPrecedence ==
  \A t \in Threads :
    (InOp(t, "New", "new_unlock") /\ ~Absent(Top(t).p, Top(t).key)) =>
      LET f == Top(t)
      IN  /\ f.found
          /\ f.res = Instance(f.fn)
          /\ IF f.key \in DOMAIN injectors[f.p]
             THEN f.it.tab = "injectors" /\ f.fn = injectors[f.p][f.key].function
             ELSE f.it.tab = "registry" /\ f.fn = registry[f.p][f.key].function

\* C1's case: New returns the instance of the override's factory for a key
\* that the store holds too.
C1_Witness ==
  \E t \in Threads :
    /\ InOp(t, "New", "new_unlock")
    /\ Top(t).key \in DOMAIN injectors[Top(t).p] \cap DOMAIN registry[Top(t).p]
    /\ Top(t).res = Instance(injectors[Top(t).p][Top(t).key].function)
    /\ Top(t).res # Instance(registry[Top(t).p][Top(t).key].function)

\* Of a New or CanNew for a key in neither table: no factory is called, the
\* result is the null pointer (false for CanNew).
C2_NoFactory ==
  \A t \in Threads :
    (/\ stack[t] # <<>>
     /\ Top(t).op \in {"New", "CanNew"}
     /\ Absent(Top(t).p, Top(t).key)) =>
      /\ Top(t).pc \in {"ge_lock", "ge_unlock", "new_unlock"}
      /\ ~Top(t).found
      /\ Top(t).fn = ""
      /\ Top(t).res = Null

\* A step of such a call leaves both tables as they are.
C2_TablesKept ==
  \A t \in Threads :
    (/\ stack[t] # <<>>
     /\ Top(t).op \in {"New", "CanNew"}
     /\ Absent(Top(t).p, Top(t).key)
     /\ stack'[t] # stack[t]) =>
      /\ registry' = registry
      /\ injectors' = injectors

\* C2: for a key in neither the store nor the override table, New returns a
\* null pointer without calling any factory and CanNew returns false, and
\* both tables are left unchanged.
C2_UnknownKey == []C2_NoFactory /\ [][C2_TablesKept]_vars

\* C2's case: New is about to return null for a key in neither table.
C2_Witness ==
  \E t \in Threads :
    /\ InOp(t, "New", "new_unlock")
    /\ Absent(Top(t).p, Top(t).key)
    /\ Top(t).res = Null

\* The emplace of a registration leaves the store unchanged when it holds the
\* key already; otherwise it adds the entry of the declaration and no other.
C3_EmplaceKeeps ==
  \A t \in Threads :
    (InOp(t, "__Registerer", "rg_lock") /\ stack'[t] # stack[t]) =>
      LET f == Top(t)
      IN  IF f.key \in DOMAIN registry[f.p] THEN registry' = registry
          ELSE /\ DOMAIN registry'[f.p] = DOMAIN registry[f.p] \cup {f.key}
               /\ registry'[f.p][f.key].function = Declarations[f.obj].function
               /\ registry'[f.p][f.key].node = f.obj

\* No step changes or removes an entry the store holds.
C3_EntriesStay ==
  \A p \in Partitions : \A key \in DOMAIN registry[p] :
    key \in DOMAIN registry'[p] /\ registry'[p][key] = registry[p][key]

\* New of a key with no override calls the factory the store holds for it.
C3_NewUsesStore ==
  \A t \in Threads :
    (/\ InOp(t, "New", "new_unlock")
     /\ Top(t).key \in DOMAIN registry[Top(t).p] \ DOMAIN injectors[Top(t).p]) =>
      Top(t).res = Instance(registry[Top(t).p][Top(t).key].function)

\* C3: a registration for a key the store of the partition holds already
\* leaves the store unchanged, so the entry of the first registration of a key
\* stays, and New(key) uses its factory.
C3_FirstWriteWins ==
  [][C3_EmplaceKeeps /\ C3_EntriesStay]_vars /\ []C3_NewUsesStore

\* C3's case: both declarations of "V4" have registered, the one of
\* registerer_test_deps.cc first, and New("V4") returns what its factory made.
C3_Witness ==
  /\ instance[1] = "done"
  /\ instance[3] = "done"
  /\ \E t \in Threads :
       /\ InOp(t, "New", "new_unlock")
       /\ Top(t).key = "V4"
       /\ Top(t).res = Instance(Declarations[3].function)

\* The Injector objects that are alive and were constructed for key on p.
AliveFor(p, key) ==
  {i \in InjectorIds : /\ injector[i].st = "alive"
                       /\ injector[i].p = p
                       /\ injector[i].ctorKey = key}

\* Injector i is the only one destroyed so far, and was the last constructed:
\* its scope is nested in the scope of every other Injector there is.
Innermost(i) ==
  \A j \in InjectorIds \ {i} : IF j < i THEN injector[j].st = "alive"
                               ELSE injector[j].st = "none"

\* C4: constructing an Injector for a key and destroying it leaves New and
\* CanNew of that key as they were before, also when another override for
\* the key was installed. Stated of the Injector i whose destructor has just
\* erased, its scope nested in that of an alive Injector j for the same key:
\* the lookup of the key finds the override of j again.
C4_RoundTrip ==
  \A t \in Threads : \A j \in InjectorIds :
    (/\ InOp(t, "~Injector", "de_unlock")
     /\ Innermost(Top(t).obj)
     /\ j \in AliveFor(Top(t).p, injector[Top(t).obj].ctorKey)) =>
      GetEntry(injectors[Top(t).p], registry[Top(t).p],
               injector[Top(t).obj].ctorKey).it
        = [tab |-> "injectors", key |-> injector[Top(t).obj].ctorKey, node |-> j]

\* The Injector constructed last among a set of them.
Last(S) == CHOOSE i \in S : \A j \in S : j <= i

\* C5: with two Injectors for the same key alive, New(key) uses the factory
\* of the one constructed last.
C5_LastTakesPrecedence ==
  \A t \in Threads :
    (/\ InOp(t, "New", "new_unlock")
     /\ Cardinality(AliveFor(Top(t).p, Top(t).key)) >= 2) =>
      /\ Top(t).it.tab = "injectors"
      /\ Top(t).it.node = Last(AliveFor(Top(t).p, Top(t).key))

\* The erase of the destructor of an Injector whose scope is nested in that of
\* the others removes no entry that another, alive Injector installed.
C6_RemovesOwnEntry ==
  \A t \in Threads :
    (/\ InOp(t, "~Injector", "de_lock")
     /\ stack'[t] # stack[t]
     /\ Innermost(Top(t).obj)) =>
      \A key \in DOMAIN injectors[Top(t).p] \ DOMAIN injectors'[Top(t).p] :
        LET by == injectors[Top(t).p][key].node
        IN  by = Top(t).obj \/ injector[by].st # "alive"

\* C6: with override scopes strictly nested, destroying an Injector never
\* removes an entry that a different, still-alive Injector installed.
C6_NestedScopes == [][C6_RemovesOwnEntry]_vars

\* C7: the destructor of an Injector erases the entry of exactly the key
\* value that was passed to its constructor, whatever happened since to the
\* string the caller passed.
C7_ErasesCtorKey ==
  \A t \in Threads :
    InOp(t, "~Injector", "de_unlock") => Top(t).key = injector[Top(t).obj].ctorKey

\* Thread t is inside a section that reads or writes the tables: between a
\* lock and its unlock, or at New's read of the entry GetEntry returned.
InSection(t) ==
  /\ stack[t] # <<>>
  /\ Top(t).pc \in {"ge_unlock", "gk_unlock", "gl_unlock", "rg_unlock",
                    "in_unlock", "de_unlock", "new_call"}

\* C8: at most one thread at a time is inside a section that reads or writes
\* the store or the override table.
C8_MutualExclusion ==
  \A t1 \in Threads : \A t2 \in Threads \ {t1} : ~(InSection(t1) /\ InSection(t2))

\* C9: the call a factory invoked by New makes into its own partition blocks
\* forever on the partition lock, and the outer New never returns.
C9_ReentrancyDeadlocks ==
  \A t \in Threads :
    /\ Len(stack[t]) >= 2 => Top(t).pc \in {"ge_lock", "rg_lock"}
    /\ ~(InOp(t, "New", "new_unlock") /\ Top(t).fn = "Reenter")

\* C10: CanNew returns true if and only if the override table or the store
\* holds an entry for the key, which is when New, in the same state, returns
\* an instance and not null; and CanNew calls no factory.
C10_CanNewPredictsNew ==
  \A t \in Threads :
    /\ InOp(t, "CanNew", "ge_unlock") =>
         Top(t).found = ~Absent(Top(t).p, Top(t).key)
    /\ InOp(t, "New", "new_unlock") =>
         (Top(t).res # Null) = ~Absent(Top(t).p, Top(t).key)
    /\ (stack[t] # <<>> /\ Top(t).op = "CanNew") =>
         /\ Top(t).pc \in {"ge_lock", "ge_unlock"}
         /\ Top(t).fn = ""
         /\ Top(t).res = Null

\* C10's case: CanNew is about to return true for a key that only the
\* override table holds.
C10_Witness ==
  \E t \in Threads :
    /\ InOp(t, "CanNew", "ge_unlock")
    /\ Top(t).found
    /\ Top(t).key \in DOMAIN injectors[Top(t).p] \ DOMAIN registry[Top(t).p]

\* The position of a key in the order of std::map<std::string, Entry>.
KeyIndex(key) == CHOOSE n \in 1..Len(KeyOrder) : KeyOrder[n] = key

\* C11: GetKeys of a partition returns exactly the keys of the store of the
\* partition, each once, in the order of the store; a key that only the
\* override table holds is not returned.
C11_GetKeys ==
  \A t \in Threads :
    InOp(t, "GetKeys", "gk_unlock") =>
      LET keys == Top(t).res
          reg == registry[Top(t).p]
      IN  /\ {keys[n] : n \in 1..Len(keys)} = DOMAIN reg
          /\ Len(keys) = Cardinality(DOMAIN reg)
          /\ \A m, n \in 1..Len(keys) : m < n => KeyIndex(keys[m]) < KeyIndex(keys[n])
          /\ \A key \in DOMAIN injectors[Top(t).p] \ DOMAIN reg :
               \A n \in 1..Len(keys) : keys[n] # key

\* C11's case: GetKeys returns the two keys of the store, in order, while the
\* override table holds a key that was never registered.
C11_Witness ==
  \E t \in Threads :
    /\ InOp(t, "GetKeys", "gk_unlock")
    /\ Top(t).res = <<"V4", "V8">>
    /\ "V16" \in DOMAIN injectors[Top(t).p]

\* The declaration whose registration created the entry the store of p holds
\* for key.
CreatedBy(p, key) == registry[p][key].node

\* The string of a declaration's location and key.
LocationOf(d) ==
  Declarations[d].file \o ":" \o Declarations[d].line \o ": " \o Declarations[d].key

\* The result of GetKeysWithLocations: one string per entry of the store, in
\* the order of GetKeys, made of the location and key of the declaration whose
\* registration created the entry.
C12_OnePerEntry ==
  \A t \in Threads :
    InOp(t, "GetKeysWithLocations", "gl_unlock") =>
      LET res == Top(t).res
          keys == GetKeys(registry[Top(t).p])
      IN  /\ Len(res) = Cardinality(DOMAIN registry[Top(t).p])
          /\ Len(res) = Len(keys)
          /\ \A n \in 1..Len(res) :
               LET d == CreatedBy(Top(t).p, keys[n])
               IN  /\ Declarations[d].p = Top(t).p
                   /\ Declarations[d].key = keys[n]
                   /\ instance[d] # "uninit"
                   /\ res[n] = LocationOf(d)

\* A later registration of a key leaves the location of its entry as it is.
C12_LocationKept ==
  \A p \in Partitions : \A key \in DOMAIN registry[p] :
    /\ key \in DOMAIN registry'[p]
    /\ registry'[p][key].file = registry[p][key].file
    /\ registry'[p][key].line = registry[p][key].line

TopAfter(t) == stack'[t][Len(stack'[t])]

\* Every entry the store holds is there after the step, with the same factory
\* and location.
C13_StoreKept ==
  \A p \in Partitions : \A key \in DOMAIN registry[p] :
    /\ key \in DOMAIN registry'[p]
    /\ registry'[p][key].function = registry[p][key].function
    /\ registry'[p][key].file = registry[p][key].file
    /\ registry'[p][key].line = registry[p][key].line

\* The lookup of a key the store holds, by any thread, finds an entry.
C13_LookupFinds ==
  \A t \in Threads :
    (/\ At(t, "ge_lock")
     /\ stack'[t] # stack[t]
     /\ Top(t).key \in DOMAIN registry[Top(t).p]) =>
      /\ TopAfter(t).found
      /\ Top(t).key \notin DOMAIN injectors[Top(t).p] =>
           TopAfter(t).it = [tab |-> "registry", key |-> Top(t).key,
                             node |-> CreatedBy(Top(t).p, Top(t).key)]

\* New, its lookup having found no override, calls the factory of the store's
\* entry.
C13_NewUsesEntry ==
  \A t \in Threads :
    (/\ InOp(t, "New", "new_call")
     /\ stack'[t] # stack[t]
     /\ Top(t).it.tab = "registry") =>
      /\ TopAfter(t).fn = Declarations[Top(t).it.node].function
      /\ TopAfter(t).fn = registry[Top(t).p][Top(t).key].function
      /\ TopAfter(t).res = Instance(TopAfter(t).fn)

\* C13: the store is append-only and its entries immutable: a key once
\* registered stays in the store with the same factory and location, every
\* later lookup from any thread finds it, and New, when no override for the key
\* is installed, uses that factory.
C13_AppendOnly == [][C13_StoreKept /\ C13_LookupFinds /\ C13_NewUsesEntry]_vars

\* C13's case: both declarations of "V4" have registered, and a thread's New
\* returns what the factory of the first made while another thread is inside
\* a call.
C13_Witness ==
  /\ instance[1] = "done"
  /\ instance[3] = "done"
  /\ \E t \in Threads : \E u \in Threads \ {t} :
       /\ InOp(t, "New", "new_unlock")
       /\ Top(t).key = "V4"
       /\ Top(t).it.tab = "registry"
       /\ Top(t).res = Instance(Declarations[1].function)
       /\ stack[u] # <<>>

\* The partition of the call that thread t starts or continues in the step.
ActingPartition(t) == IF stack[t] = <<>> THEN TopAfter(t).p ELSE Top(t).p

\* A step of a call on one partition leaves the store, the override table and
\* the mutex of every other partition as they are.
C14_OthersKept ==
  \A t \in Threads :
    stack'[t] # stack[t] =>
      \A q \in Partitions \ {ActingPartition(t)} :
        /\ registry'[q] = registry[q]
        /\ injectors'[q] = injectors[q]
        /\ registry_mutex'[q] = registry_mutex[q]

\* The lookup of a key on partition p finds an entry exactly when a table of
\* p holds the key, whatever the other partitions hold, and an entry it finds
\* in the store is that of a declaration for p.
C14_OwnEntries ==
  \A t \in Threads :
    (At(t, "ge_lock") /\ stack'[t] # stack[t]) =>
      /\ TopAfter(t).found = ~Absent(Top(t).p, Top(t).key)
      /\ TopAfter(t).it.tab = "registry" =>
           /\ Declarations[TopAfter(t).it.node].p = Top(t).p
           /\ Declarations[TopAfter(t).it.node].key = Top(t).key

\* C14: partitions are independent: a registration, the construction or
\* destruction of an Injector, or a lookup on one partition leaves the store
\* and the override table of every other partition unchanged, and a key
\* registered under two signatures has two entries, each found only through
\* its own partition.
C14_PartitionsIndependent == [][C14_OthersKept /\ C14_OwnEntries]_vars

\* C14's case: "Ellipsis" is registered for Registry<Shape> and for
\* Registry<Shape, const std::string &>, an Injector overrides it on the first,
\* and a New on the second has found the store's entry of the second.
C14_Witness ==
  /\ "Ellipsis" \in DOMAIN injectors["Shape"]
  /\ "Ellipsis" \notin DOMAIN injectors["ShapeString"]
  /\ \E t \in Threads :
       /\ InOp(t, "New", "new_unlock")
       /\ Top(t).p = "ShapeString"
       /\ Top(t).key = "Ellipsis"
       /\ Top(t).it = [tab |-> "registry", key |-> "Ellipsis", node |-> 8]
       /\ registry["Shape"]["Ellipsis"].node = 7
       /\ Top(t).res = Instance("Ellipsis")

\* The queries of ordinary code.
QueryOps == {"New", "CanNew", "GetKeys", "GetKeysWithLocations"}

\* The calls of the constructor of __Registerer for declaration d that are
\* running.
RegistererCalls(d) ==
  {c \in Threads \X (1..MaxDepth) :
     /\ c[2] <= Len(stack[c[1]])
     /\ stack[c[1]][c[2]].op = "__Registerer"
     /\ stack[c[1]][c[2]].obj = d}

\* While a query of a partition is running, the registration of every
\* declaration of the partition has completed and its key is in the store.
C15_HooksDone ==
  \A t \in Threads : \A n \in 1..Len(stack[t]) :
    stack[t][n].op \in QueryOps =>
      \A d \in DeclIds :
        Declarations[d].p = stack[t][n].p =>
          /\ instance[d] = "done"
          /\ Declarations[d].key \in DOMAIN registry[stack[t][n].p]

\* The register call of a declaration runs while its instance is being
\* initialized, and there is one such call.
C15_OneCall ==
  \A d \in DeclIds :
    Cardinality(RegistererCalls(d)) = IF instance[d] = "init" THEN 1 ELSE 0

\* An instance is initialized once: it never leaves "done", nor returns to
\* "uninit".
C15_OnceOnly ==
  \A d \in DeclIds :
    /\ instance[d] = "done" => instance'[d] = "done"
    /\ instance[d] = "init" => instance'[d] \in {"init", "done"}

\* C15: each REGISTER declaration results in exactly one register call on its
\* partition, and all of these calls have completed before the first New,
\* CanNew, GetKeys or GetKeysWithLocations of the partition that ordinary code
\* makes.
C15_RegisteredBeforeQueries ==
  [](C15_HooksDone /\ C15_OneCall) /\ [][C15_OnceOnly]_vars

\* C15's case: ordinary code asks CanNew("Motorbike") of
\* Registry<Vehicle, Engine *> and finds the entry of the declaration.
C15_Witness ==
  \E t \in Threads :
    /\ InOp(t, "CanNew", "ge_unlock")
    /\ Top(t).p = "Vehicle"
    /\ Top(t).key = "Motorbike"
    /\ Top(t).found
    /\ Top(t).it.node = 6

\* The store after the registration of declaration d on store map.
HookEffect(map, d) ==
  Emplace(map, Declarations[d].key,
          Entry(Declarations[d].file, Declarations[d].line,
                Declarations[d].function, d))

\* The store of partition p after the registrations of declarations 1..d have
\* run in the order of their numbers.
RECURSIVE InOrder(_, _)
InOrder(p, d) ==
  IF d = 0 THEN EmptyMap
  ELSE IF Declarations[d].p = p THEN HookEffect(InOrder(p, d - 1), d)
       ELSE InOrder(p, d - 1)

\* The key -> factory mapping of a store.
Factories(map) == [key \in DOMAIN map |-> map[key].function]

\* Once every registration has run, the store of a partition maps keys to
\* factories as it does when the registrations run in the order of their
\* numbers: every order gives the same mapping.
C16_SameMapping ==
  Ready => \A p \in Partitions :
             Factories(registry[p]) = Factories(InOrder(p, Len(Declarations)))

\* The registration of a declaration leaves its own entry in the store,
\* whatever the registrations that ran before it wrote.
C16_OwnEffect ==
  \A t \in Threads :
    (InOp(t, "__Registerer", "rg_lock") /\ stack'[t] # stack[t]) =>
      /\ Top(t).key \in DOMAIN registry'[Top(t).p]
      /\ registry'[Top(t).p][Top(t).key].node = Top(t).obj

\* C16 as claimed: for every set of declarations of a partition, the
\* key -> factory mapping of the store once all registrations have run is the
\* same for every order in which they run, and the effect of none depends on
\* state that another wrote.
C16_OrderIndependent == []C16_SameMapping /\ [][C16_OwnEffect]_vars

\* No other declaration of the partition of d declares the key of d.
UniqueKey(d) ==
  \A e \in DeclIds \ {d} :
    Declarations[e].p = Declarations[d].p => Declarations[e].key # Declarations[d].key

\* Once every registration has run, the store of a partition holds the key
\* of every declaration of the partition and no other, and maps a key that
\* one declaration declares to the factory of that declaration.
C16_SameMappingDistinct ==
  Ready => \A p \in Partitions :
             /\ DOMAIN registry[p] = {Declarations[d].key : d \in {e \in DeclIds : Declarations[e].p = p}}
             /\ \A d \in DeclIds :
                  (Declarations[d].p = p /\ UniqueKey(d)) =>
                    /\ registry[p][Declarations[d].key].function = Declarations[d].function
                    /\ registry[p][Declarations[d].key].node = d

\* The registration of a declaration whose key no other declares adds its
\* entry and leaves the rest of the store untouched, whatever ran before.
C16_OwnEffectDistinct ==
  \A t \in Threads :
    (/\ InOp(t, "__Registerer", "rg_lock")
     /\ stack'[t] # stack[t]
     /\ UniqueKey(Top(t).obj)) =>
      /\ Top(t).key \notin DOMAIN registry[Top(t).p]
      /\ DOMAIN registry'[Top(t).p] = DOMAIN registry[Top(t).p] \cup {Top(t).key}
      /\ registry'[Top(t).p][Top(t).key].node = Top(t).obj
      /\ \A key \in DOMAIN registry[Top(t).p] :
           registry'[Top(t).p][key] = registry[Top(t).p][key]

\* C16 amended: for the declarations of a partition whose key no other
\* declaration of the partition declares, the factory the store holds for the
\* key once all registrations have run is the same for every order, and the
\* effect of such a registration does not depend on what ran before it.
C16_OrderIndependentDistinct ==
  []C16_SameMappingDistinct /\ [][C16_OwnEffectDistinct]_vars

\* C16's case: all registrations have run, not in the order of their
\* numbers (that of the second declaration of "V4" ran before that of the
\* first), and the store of Registry<Shape> holds its three distinct keys.
C16_Witness ==
  /\ Ready
  /\ DOMAIN registry["Shape"] = {"Ellipsis", "Rect", "Rectangle"}
  /\ registry["Engine"]["V4"].node = 3
  /\ registry["Shape"]["Rectangle"].node = 9

\* C17: for every key registered in a partition by a REGISTER declaration of a
\* class, New(key), no override installed, returns an instance of a class
\* whose GetKeyFor on that partition is the key; and a class registered in two
\* partitions reports on each the key it declared for it.
C17_KeyRoundTrip ==
  /\ \A t \in Threads :
       (/\ InOp(t, "New", "new_unlock")
        /\ Top(t).it.tab = "registry"
        /\ Declarations[Top(t).it.node].by = "REGISTER") =>
         /\ Top(t).res = Instance(Top(t).fn)
         /\ GetKeyFor(Top(t).p, Top(t).fn) = Top(t).key
  /\ \A d \in DeclIds :
       Declarations[d].by = "REGISTER" =>
         GetKeyFor(Declarations[d].p, Declarations[d].function) = Declarations[d].key

\* C17's case: New("Motorbike") of Registry<Vehicle, Engine *> returns a
\* Bicycle, the class that Registry<Vehicle> holds under "Bicycle".
C17_Witness ==
  \E t \in Threads :
    /\ InOp(t, "New", "new_unlock")
    /\ Top(t).p = "Vehicle"
    /\ Top(t).key = "Motorbike"
    /\ Top(t).res = Instance("Bicycle")
    /\ registry["VehicleNoArg"]["Bicycle"].function = "Bicycle"

\* The factory that a lookup of key on tables inj and reg selects ("" when
\* it finds none).
Selected(inj, reg, key) ==
  LET r == GetEntry(inj, reg, key)
  IN  IF ~r.found THEN ""
      ELSE IF r.it.tab = "injectors" THEN inj[key].function
      ELSE reg[key].function

\* C18 as claimed: alias(existingKey, newKey), the store holding existingKey,
\* has inserted a store entry under newKey with the factory of existingKey, so
\* that New(newKey) selects the factory New(existingKey) selected at the alias
\* call, and GetKeys holds newKey.
C18_Alias ==
  \A t \in Threads :
    (InOp(t, "Alias", "al_unlock") /\ Top(t).key \in DOMAIN registry[Top(t).p]) =>
      LET f == Top(t)
          keys == GetKeys(registry[f.p])
      IN  /\ f.newKey \in DOMAIN registry[f.p]
          /\ registry[f.p][f.newKey].function = registry[f.p][f.key].function
          /\ Selected(injectors[f.p], registry[f.p], f.newKey)
               = Selected(injectors[f.p], registry[f.p], f.key)
          /\ \E n \in 1..Len(keys) : keys[n] = f.newKey

\* The insertion of alias(existingKey, newKey), the store holding existingKey
\* and not newKey: the store gets an entry under newKey with the factory of
\* existingKey and keeps its other entries, GetKeys holds newKey, and, no
\* override installed for either key, a lookup of newKey selects the factory a
\* lookup of existingKey selected before.
C18_Inserts ==
  \A t \in Threads :
    (/\ InOp(t, "Alias", "al_lock")
     /\ stack'[t] # stack[t]
     /\ Top(t).key \in DOMAIN registry[Top(t).p]
     /\ Top(t).newKey \notin DOMAIN registry[Top(t).p]) =>
      LET f == Top(t)
          keys == GetKeys(registry'[f.p])
      IN  /\ DOMAIN registry'[f.p] = DOMAIN registry[f.p] \cup {f.newKey}
          /\ registry'[f.p][f.newKey].function = registry[f.p][f.key].function
          /\ \A key \in DOMAIN registry[f.p] : registry'[f.p][key] = registry[f.p][key]
          /\ \E n \in 1..Len(keys) : keys[n] = f.newKey
          /\ ({f.key, f.newKey} \cap DOMAIN injectors[f.p] = {}) =>
               Selected(injectors'[f.p], registry'[f.p], f.newKey)
                 = Selected(injectors[f.p], registry[f.p], f.key)

\* New of a key that only an alias put in the store, no override installed,
\* returns what the aliased factory makes.
C18_NewUsesAlias ==
  \A t \in Threads :
    (/\ InOp(t, "New", "new_unlock")
     /\ Top(t).it.tab = "registry"
     /\ Top(t).it.node = 0) =>
      /\ Top(t).fn \in {Declarations[d].function : d \in {e \in DeclIds : Declarations[e].p = Top(t).p}}
      /\ Top(t).fn = registry[Top(t).p][Top(t).key].function
      /\ Top(t).res = Instance(Top(t).fn)

\* C18 amended: alias(existingKey, newKey) on a partition whose store holds
\* existingKey and holds no entry for newKey inserts a store entry under
\* newKey with the same factory, newKey appears in GetKeys, and, no override
\* being installed for either key, New(newKey) behaves as New(existingKey) did
\* at the alias call.
C18_AliasOfNewKey == [][C18_Inserts]_vars /\ []C18_NewUsesAlias

\* C18's case: "Rect" is in the store by alias("Rectangle", "Rect") only, and
\* New("Rect") returns the object Rect's factory made.
C18_Witness ==
  /\ "Rectangle" \in DOMAIN registry["Shape"]
  /\ registry["Shape"]["Rectangle"].function = "Rect"
  /\ \E t \in Threads :
       /\ InOp(t, "New", "new_unlock")
       /\ Top(t).key = "Rect"
       /\ Top(t).it = [tab |-> "registry", key |-> "Rect", node |-> 0]
       /\ Top(t).res = Instance("Rect")

\* The insertion of alias(existingKey, newKey), the store not holding
\* existingKey: both tables stay as they are, and the call goes on to return.
C19_NoEffect ==
  \A t \in Threads :
    (/\ InOp(t, "Alias", "al_lock")
     /\ stack'[t] # stack[t]
     /\ Top(t).key \notin DOMAIN registry[Top(t).p]) =>
      /\ registry' = registry
      /\ injectors' = injectors
      /\ TopAfter(t).pc = "al_unlock"
      /\ Selected(injectors'[Top(t).p], registry'[Top(t).p], Top(t).newKey)
           = Selected(injectors[Top(t).p], registry[Top(t).p], Top(t).newKey)

\* The return of a call of alias leaves both tables as they are.
C19_Returns ==
  \A t \in Threads :
    (InOp(t, "Alias", "al_unlock") /\ stack'[t] # stack[t]) =>
      /\ registry' = registry
      /\ injectors' = injectors
      /\ stack'[t] = <<>>

\* C19: alias(existingKey, newKey), the store of the partition not holding
\* existingKey, has no observable effect: the store and the override table
\* are unchanged, newKey stays unconstructible, and the call returns without
\* signaling a failure.
C19_AliasOfAbsentKey == [][C19_NoEffect /\ C19_Returns]_vars

\* C19's case: alias("Rectangle", "Rect") has run before the registration of
\* "Rectangle": the store holds neither key and the call is about to return.
C19_Witness ==
  \E t \in Threads :
    /\ InOp(t, "Alias", "al_unlock")
    /\ Top(t).key = "Rectangle"
    /\ Top(t).newKey = "Rect"
    /\ Absent("Shape", "Rectangle")
    /\ Absent("Shape", "Rect")

\* Declaration d registers a class that another declaration registers for
\* the same partition under another key.
TwoKeys(d) ==
  \E e \in DeclIds \ {d} :
    /\ Declarations[e].p = Declarations[d].p
    /\ Declarations[e].function = Declarations[d].function
    /\ Declarations[e].key # Declarations[d].key

\* C20: a class registered under two distinct keys in one partition is
\* constructible through either key (New of either, no override installed,
\* returns an instance built by the factory of the class), and GetKeys of the
\* partition holds both keys.
C20_TwoKeysOneType ==
  \A d \in DeclIds :
    (Ready /\ TwoKeys(d)) =>
      LET p == Declarations[d].p
          key == Declarations[d].key
      IN  /\ key \in DOMAIN registry[p]
          /\ registry[p][key].function = Declarations[d].function
          /\ \A t \in Threads :
               /\ (InOp(t, "GetKeys", "gk_unlock") /\ Top(t).p = p) =>
                    \E n \in 1..Len(Top(t).res) : Top(t).res[n] = key
               /\ (/\ InOp(t, "New", "new_unlock")
                   /\ Top(t).p = p
                   /\ Top(t).key = key
                   /\ Top(t).it.tab # "injectors") =>
                    Top(t).res = Instance(Declarations[d].function)

\* C20's case: Rect is registered for Registry<Shape> under "Rectangle" and
\* under "Rect"; one thread's New("Rect") and the other's New("Rectangle")
\* return instances of Rect.
C20_Witness ==
  \E t \in Threads : \E u \in Threads \ {t} :
    /\ InOp(t, "New", "new_unlock")
    /\ Top(t).p = "Shape"
    /\ Top(t).key = "Rect"
    /\ Top(t).res = Instance("Rect")
    /\ InOp(u, "New", "new_unlock")
    /\ Top(u).p = "Shape"
    /\ Top(u).key = "Rectangle"
    /\ Top(u).res = Instance("Rect")

\* The places where a call is about to unlock the mutex of its partition.
UnlockPcs == {"ge_unlock", "new_unlock", "gk_unlock", "gl_unlock", "rg_unlock",
              "in_unlock", "de_unlock", "al_unlock"}

\* An unlock is made by the thread that holds the mutex.
C22_UnlockByHolder ==
  \A t \in Threads :
    (/\ stack[t] # <<>>
     /\ Top(t).pc \in UnlockPcs
     /\ stack'[t] # stack[t]) =>
      registry_mutex[Top(t).p] = t

\* The mutex of a partition no call is inside is free.
C22_FreeWhenIdle ==
  \A p \in Partitions :
    (\A t \in Threads : \A n \in 1..Len(stack[t]) : stack[t][n].p # p) =>
      registry_mutex[p] = Free

\* C22: every unlock of the mutex of a partition is made by the thread that
\* holds it, New included, so that each operation releases the mutex as many
\* times as it acquired it, and the mutex is free whenever no operation is in
\* progress.
C22_LockDiscipline == [][C22_UnlockByHolder]_vars /\ []C22_FreeWhenIdle

\* C23: when New is about to call the factory of the entry its lookup
\* selected, the entry is still in the table it was found in.
C23_NoStaleEntry ==
  \A t \in Threads :
    InOp(t, "New", "new_call") => NodeLive(Top(t).p, Top(t).it)

\* The calls that only read the tables.
ReadOps == {"New", "CanNew", "GetKeys", "GetKeysWithLocations"}

\* A step of thread t inside a call of one of the operations ops, or the
\* step that starts one.
StepOf(t, ops) ==
  /\ stack'[t] # stack[t]
  /\ IF Len(stack'[t]) > Len(stack[t]) THEN TopAfter(t).op \in ops
     ELSE Top(t).op \in ops

\* C24: New, CanNew, GetKeys and GetKeysWithLocations leave the store and the
\* override table unchanged; the constructor and the destructor of an Injector
\* leave the store unchanged; a registration leaves the override table
\* unchanged.
C24_Frames ==
  [][\A t \in Threads :
       /\ StepOf(t, ReadOps) => registry' = registry /\ injectors' = injectors
       /\ StepOf(t, {"Injector", "~Injector"}) => registry' = registry
       /\ StepOf(t, {"__Registerer"}) => injectors' = injectors]_vars

\* C24's case: the store and the override table both hold entries, the
\* destructor of an Injector has erased an entry, and the store is whole.
C24_Witness ==
  /\ DOMAIN registry["Engine"] = {"V4", "V8"}
  /\ \E t \in Threads :
       /\ InOp(t, "~Injector", "de_unlock")
       /\ Top(t).key = "V4"
       /\ "V4" \notin DOMAIN injectors["Engine"]
       /\ "V16" \in DOMAIN injectors["Engine"]

\* The places where a call waits for the mutex of its partition.
LockPcs == {"ge_lock", "gk_lock", "gl_lock", "rg_lock", "in_lock", "de_lock",
            "al_lock"}

\* Thread t is inside a call and waits for a mutex that is not free.
Blocked(t) ==
  /\ stack[t] # <<>>
  /\ Top(t).pc \in LockPcs
  /\ ~CanLock(registry_mutex[Top(t).p], t)

\* Some thread inside a call can take its next step.
C21_NotAllBlocked ==
  (\E t \in Threads : stack[t] # <<>>) =>
    \E t \in Threads : stack[t] # <<>> /\ ~Blocked(t)

\* Every call a thread is inside returns.
C21_Returns == \A t \in Threads : (stack[t] # <<>>) ~> (stack[t] = <<>>)

====
